---- MODULE Spec2Model ----
(***************************************************************************)
(* Model of the NDC codec of NDC_Converter.py: the two format detectors    *)
(* (detect_11_digit_format, detect_10_digit_format) and the two converters *)
(* (convert_10_to_11, convert_11_to_10), applied to one cell of the NDC    *)
(* column as process_file does.                                            *)
(*                                                                         *)
(* A Python str is a sequence of one-character strings.  "u0663" stands    *)
(* for the single character U+0663 (ARABIC-INDIC DIGIT THREE): Python's    *)
(* \D / \d and int() work on every Unicode decimal digit, while the        *)
(* comparisons with '0'..'9' in the source are comparisons of characters.  *)
(***************************************************************************)
EXTENDS Integers, Sequences, FiniteSets, TLC

VARIABLES ndc, pc, converted, back, stdout

vars == <<ndc, pc, converted, back, stdout>>

----------------------------------------------------------------------------
(* Bounds of the input domain *)

\* longest digit string fed to the converters
MaxLen == 12
\* most separator characters in one input
MaxSeps == 2

\* places (number of digits before it) where an input may carry a hyphen
SepSlots == {4, 5, 8, 9}

\* characters an input digit may be, per 0-based digit position: the positions
\* the detectors inspect vary, the others hold a filler digit
Choices(i) ==
    IF i = 0 THEN {"0", "1", "9", "u0663"}
    ELSE IF i \in {1, 4, 5, 6, 7, 8, 10} THEN {"0", "9"}
    ELSE IF i = 9 THEN {"0", "9", "u0663"}
    ELSE {"5"}

RECURSIVE DigitStrings(_)
DigitStrings(n) ==
    IF n = 0 THEN {<<>>}
    ELSE {Append(s, c) : s \in DigitStrings(n - 1), c \in Choices(n - 1)}

RECURSIVE InsertSeps(_, _, _)
InsertSeps(d, S, k) ==
    IF k > Len(d) THEN <<>>
    ELSE (IF k \in S THEN <<"-">> ELSE <<>>)
         \o (IF k < Len(d) THEN <<d[k + 1]>> ELSE <<>>)
         \o InsertSeps(d, S, k + 1)

SepSets == {S \in SUBSET SepSlots : Cardinality(S) <= MaxSeps}

Inputs ==
    UNION {{InsertSeps(d, S, 0) : d \in DigitStrings(n), S \in SepSets} : n \in 0..MaxLen}

----------------------------------------------------------------------------
(* Python primitives the codec uses *)

AsciiDigits == {"0", "1", "2", "3", "4", "5", "6", "7", "8", "9"}

\* the characters \d matches (Unicode category Nd), as far as inputs hold them
IsDecimalDigit(c) == c \in AsciiDigits \cup {"u0663"}

DigitValue(c) ==
    CASE c = "0" -> 0 [] c = "1" -> 1 [] c = "2" -> 2 [] c = "3" -> 3
      [] c = "4" -> 4 [] c = "5" -> 5 [] c = "6" -> 6 [] c = "7" -> 7
      [] c = "8" -> 8 [] c = "9" -> 9 [] c = "u0663" -> 3

\* re.sub(r'\D', '', str(ndc))
re_sub_nondigits(s) == SelectSeq(s, IsDecimalDigit)

\* s[a:b] and s[a:]
Slice(s, a, b) == SubSeq(s, a + 1, IF b < Len(s) THEN b ELSE Len(s))
SliceFrom(s, a) == SubSeq(s, a + 1, Len(s))

\* int(s): ValueError on the empty string and on a non-digit character
IntParses(s) == Len(s) > 0 /\ \A i \in 1..Len(s) : IsDecimalDigit(s[i])

RECURSIVE int(_)
int(s) == IF Len(s) = 0 THEN 0 ELSE 10 * int(SubSeq(s, 1, Len(s) - 1)) + DigitValue(s[Len(s)])

\* s[i] == '0' and s[j] != '0', with Python's short circuit and IndexError
ZeroMarker(s, i, j) ==
    IF i >= Len(s) THEN "IndexError"
    ELSE IF s[i + 1] # "0" THEN "False"
    ELSE IF j >= Len(s) THEN "IndexError"
    ELSE IF s[j + 1] # "0" THEN "True" ELSE "False"

Detected(f, d) == [exc |-> "none", format_type |-> f, ndc_digits |-> d]
DetectRaises(e) == [exc |-> e, format_type |-> "None", ndc_digits |-> <<>>]

Returns(v, p) == [exc |-> "none", value |-> v, printed |-> p]
Raises(e) == [exc |-> e, value |-> <<>>, printed |-> <<>>]
NotRun == [exc |-> "notrun", value |-> <<>>, printed |-> <<>>]

----------------------------------------------------------------------------
(* The detectors *)

\* mutants of detect_11_digit_format
\* the 5-3-2 check tried before the 4-4-2 check
detect_11_digit_format_reordered(n) ==
    LET ndc_digits == re_sub_nondigits(n)
        m1 == ZeroMarker(ndc_digits, 0, 1)
        m2 == ZeroMarker(ndc_digits, 5, 6)
        m3 == ZeroMarker(ndc_digits, 9, 10)
    IN  IF Len(ndc_digits) # 11 THEN Detected("None", ndc_digits)
        ELSE IF m2 = "IndexError" THEN DetectRaises("IndexError")
        ELSE IF m2 = "True" THEN Detected("5-3-2", ndc_digits)
        ELSE IF m1 = "IndexError" THEN DetectRaises("IndexError")
        ELSE IF m1 = "True" THEN Detected("4-4-2", ndc_digits)
        ELSE IF m3 = "IndexError" THEN DetectRaises("IndexError")
        ELSE IF m3 = "True" THEN Detected("5-4-1", ndc_digits)
        ELSE Detected("unknown", ndc_digits)

\* the 5-3-2 check looking at index 4 instead of index 5
detect_11_digit_format_offbyone(n) ==
    LET ndc_digits == re_sub_nondigits(n)
        m1 == ZeroMarker(ndc_digits, 0, 1)
        m2 == ZeroMarker(ndc_digits, 4, 6)
        m3 == ZeroMarker(ndc_digits, 9, 10)
    IN  IF Len(ndc_digits) # 11 THEN Detected("None", ndc_digits)
        ELSE IF m1 = "IndexError" THEN DetectRaises("IndexError")
        ELSE IF m1 = "True" THEN Detected("4-4-2", ndc_digits)
        ELSE IF m2 = "IndexError" THEN DetectRaises("IndexError")
        ELSE IF m2 = "True" THEN Detected("5-3-2", ndc_digits)
        ELSE IF m3 = "IndexError" THEN DetectRaises("IndexError")
        ELSE IF m3 = "True" THEN Detected("5-4-1", ndc_digits)
        ELSE Detected("unknown", ndc_digits)

detect_11_digit_format(n) ==
    LET ndc_digits == re_sub_nondigits(n)
        m1 == ZeroMarker(ndc_digits, 0, 1)
        m2 == ZeroMarker(ndc_digits, 5, 6)
        m3 == ZeroMarker(ndc_digits, 9, 10)
    IN  IF Len(ndc_digits) # 11 THEN Detected("None", ndc_digits)
        ELSE IF m1 = "IndexError" THEN DetectRaises("IndexError")
        ELSE IF m1 = "True" THEN Detected("4-4-2", ndc_digits)
        ELSE IF m2 = "IndexError" THEN DetectRaises("IndexError")
        ELSE IF m2 = "True" THEN Detected("5-3-2", ndc_digits)
        ELSE IF m3 = "IndexError" THEN DetectRaises("IndexError")
        ELSE IF m3 = "True" THEN Detected("5-4-1", ndc_digits)
        ELSE Detected("unknown", ndc_digits)

\* mutant of detect_10_digit_format: the "not 10 digits" return left out
detect_10_digit_format_nolengthcheck(n) ==
    LET ndc_digits == re_sub_nondigits(n)
        product_code == Slice(ndc_digits, 5, 9)
    IN  IF Len(ndc_digits) = 11 THEN Detected("None", ndc_digits)
        ELSE IF 0 >= Len(ndc_digits) THEN DetectRaises("IndexError")
        ELSE IF ndc_digits[1] \in {"0", "1", "2", "3"} THEN Detected("4-4-2", ndc_digits)
        ELSE IF 9 >= Len(ndc_digits) THEN DetectRaises("IndexError")
        ELSE IF ndc_digits[10] \in AsciiDigits
             THEN IF ~IntParses(product_code) THEN DetectRaises("ValueError")
                  ELSE IF int(product_code) < 9999 THEN Detected("5-4-1", ndc_digits)
                  ELSE Detected("5-3-2", ndc_digits)
        ELSE Detected("5-3-2", ndc_digits)

detect_10_digit_format(n) ==
    LET ndc_digits == re_sub_nondigits(n)
        product_code == Slice(ndc_digits, 5, 9)
    IN  IF Len(ndc_digits) = 11 THEN Detected("None", ndc_digits)
        ELSE IF Len(ndc_digits) # 10 THEN Detected("None", n)
        ELSE IF 0 >= Len(ndc_digits) THEN DetectRaises("IndexError")
        ELSE IF ndc_digits[1] \in {"0", "1", "2", "3"} THEN Detected("4-4-2", ndc_digits)
        ELSE IF 9 >= Len(ndc_digits) THEN DetectRaises("IndexError")
        ELSE IF ndc_digits[10] \in AsciiDigits
             THEN IF ~IntParses(product_code) THEN DetectRaises("ValueError")
                  ELSE IF int(product_code) < 9999 THEN Detected("5-4-1", ndc_digits)
                  ELSE Detected("5-3-2", ndc_digits)
        ELSE Detected("5-3-2", ndc_digits)

----------------------------------------------------------------------------
(* The converters *)

\* mutants of convert_10_to_11
\* the stripped digits returned where the input should be
convert_10_to_11_returnsdigits(n) ==
    LET r == detect_10_digit_format(n)
        ndc_digits == r.ndc_digits
    IN  IF r.exc # "none" THEN Raises(r.exc)
        ELSE IF r.format_type = "None" THEN Returns(r.ndc_digits, <<>>)
        ELSE IF r.format_type = "4-4-2" THEN Returns(<<"0">> \o ndc_digits, <<>>)
        ELSE IF r.format_type = "5-3-2"
             THEN Returns(Slice(ndc_digits, 0, 5) \o <<"0">> \o SliceFrom(ndc_digits, 5), <<>>)
        ELSE IF r.format_type = "5-4-1"
             THEN Returns(Slice(ndc_digits, 0, 9) \o <<"0">> \o SliceFrom(ndc_digits, 9), <<>>)
        ELSE Returns(ndc_digits, <<>>)

\* the 5-4-1 branch overwriting the last digit with the '0'
convert_10_to_11_overwrites(n) ==
    LET r == detect_10_digit_format(n)
        ndc_digits == r.ndc_digits
    IN  IF r.exc # "none" THEN Raises(r.exc)
        ELSE IF r.format_type = "None" THEN Returns(n, <<>>)
        ELSE IF r.format_type = "4-4-2" THEN Returns(<<"0">> \o ndc_digits, <<>>)
        ELSE IF r.format_type = "5-3-2"
             THEN Returns(Slice(ndc_digits, 0, 5) \o <<"0">> \o SliceFrom(ndc_digits, 5), <<>>)
        ELSE IF r.format_type = "5-4-1"
             THEN Returns(Slice(ndc_digits, 0, 9) \o <<"0">> \o SliceFrom(ndc_digits, 10), <<>>)
        ELSE Returns(ndc_digits, <<>>)

convert_10_to_11(n) ==
    LET r == detect_10_digit_format(n)
        ndc_digits == r.ndc_digits
    IN  IF r.exc # "none" THEN Raises(r.exc)
        ELSE IF r.format_type = "None" THEN Returns(n, <<>>)
        ELSE IF r.format_type = "4-4-2" THEN Returns(<<"0">> \o ndc_digits, <<>>)
        ELSE IF r.format_type = "5-3-2"
             THEN Returns(Slice(ndc_digits, 0, 5) \o <<"0">> \o SliceFrom(ndc_digits, 5), <<>>)
        ELSE IF r.format_type = "5-4-1"
             THEN Returns(Slice(ndc_digits, 0, 9) \o <<"0">> \o SliceFrom(ndc_digits, 9), <<>>)
        ELSE Returns(ndc_digits, <<>>)

\* mutants of convert_11_to_10
\* the stripped digits returned where the input should be
convert_11_to_10_returnsdigits(n) ==
    LET r == detect_11_digit_format(n)
        ndc_digits == r.ndc_digits
    IN  IF r.exc # "none" THEN Raises(r.exc)
        ELSE IF r.format_type = "None" THEN Returns(r.ndc_digits, <<>>)
        ELSE IF r.format_type = "4-4-2" THEN Returns(SliceFrom(ndc_digits, 1), <<>>)
        ELSE IF r.format_type = "5-3-2"
             THEN Returns(Slice(ndc_digits, 0, 5) \o SliceFrom(ndc_digits, 6), <<>>)
        ELSE IF r.format_type = "5-4-1"
             THEN Returns(Slice(ndc_digits, 0, 9) \o SliceFrom(ndc_digits, 10), <<>>)
        ELSE IF r.format_type = "unknown" THEN Returns(ndc_digits, <<ndc_digits>>)
        ELSE Returns(ndc_digits, <<>>)

\* the 5-4-1 branch removing index 10 instead of index 9
convert_11_to_10_wrongindex(n) ==
    LET r == detect_11_digit_format(n)
        ndc_digits == r.ndc_digits
    IN  IF r.exc # "none" THEN Raises(r.exc)
        ELSE IF r.format_type = "None" THEN Returns(n, <<>>)
        ELSE IF r.format_type = "4-4-2" THEN Returns(SliceFrom(ndc_digits, 1), <<>>)
        ELSE IF r.format_type = "5-3-2"
             THEN Returns(Slice(ndc_digits, 0, 5) \o SliceFrom(ndc_digits, 6), <<>>)
        ELSE IF r.format_type = "5-4-1"
             THEN Returns(Slice(ndc_digits, 0, 10), <<>>)
        ELSE IF r.format_type = "unknown" THEN Returns(ndc_digits, <<ndc_digits>>)
        ELSE Returns(ndc_digits, <<>>)

\* the unknown branch without its warning
convert_11_to_10_silent(n) ==
    LET r == detect_11_digit_format(n)
        ndc_digits == r.ndc_digits
    IN  IF r.exc # "none" THEN Raises(r.exc)
        ELSE IF r.format_type = "None" THEN Returns(n, <<>>)
        ELSE IF r.format_type = "4-4-2" THEN Returns(SliceFrom(ndc_digits, 1), <<>>)
        ELSE IF r.format_type = "5-3-2"
             THEN Returns(Slice(ndc_digits, 0, 5) \o SliceFrom(ndc_digits, 6), <<>>)
        ELSE IF r.format_type = "5-4-1"
             THEN Returns(Slice(ndc_digits, 0, 9) \o SliceFrom(ndc_digits, 10), <<>>)
        ELSE IF r.format_type = "unknown" THEN Returns(ndc_digits, <<>>)
        ELSE Returns(ndc_digits, <<>>)

\* the 5-3-2 branch removing nothing
convert_11_to_10_keeps(n) ==
    LET r == detect_11_digit_format(n)
        ndc_digits == r.ndc_digits
    IN  IF r.exc # "none" THEN Raises(r.exc)
        ELSE IF r.format_type = "None" THEN Returns(n, <<>>)
        ELSE IF r.format_type = "4-4-2" THEN Returns(SliceFrom(ndc_digits, 1), <<>>)
        ELSE IF r.format_type = "5-3-2"
             THEN Returns(Slice(ndc_digits, 0, 5) \o SliceFrom(ndc_digits, 5), <<>>)
        ELSE IF r.format_type = "5-4-1"
             THEN Returns(Slice(ndc_digits, 0, 9) \o SliceFrom(ndc_digits, 10), <<>>)
        ELSE IF r.format_type = "unknown" THEN Returns(ndc_digits, <<ndc_digits>>)
        ELSE Returns(ndc_digits, <<>>)

convert_11_to_10(n) ==
    LET r == detect_11_digit_format(n)
        ndc_digits == r.ndc_digits
    IN  IF r.exc # "none" THEN Raises(r.exc)
        ELSE IF r.format_type = "None" THEN Returns(n, <<>>)
        ELSE IF r.format_type = "4-4-2" THEN Returns(SliceFrom(ndc_digits, 1), <<>>)
        ELSE IF r.format_type = "5-3-2"
             THEN Returns(Slice(ndc_digits, 0, 5) \o SliceFrom(ndc_digits, 6), <<>>)
        ELSE IF r.format_type = "5-4-1"
             THEN Returns(Slice(ndc_digits, 0, 9) \o SliceFrom(ndc_digits, 10), <<>>)
        ELSE IF r.format_type = "unknown" THEN Returns(ndc_digits, <<ndc_digits>>)
        ELSE Returns(ndc_digits, <<>>)

----------------------------------------------------------------------------
(* One cell of the NDC column through process_file *)

Init ==
    /\ ndc \in Inputs
    /\ pc = "input"
    /\ converted = NotRun
    /\ back = NotRun
    /\ stdout = <<>>

\* conversion_type '10to11': df[ndc_column].apply(convert_10_to_11)
Apply10to11 ==
    /\ pc = "input"
    /\ converted' = convert_10_to_11(ndc)
    /\ pc' = "10to11"
    /\ UNCHANGED <<ndc, back, stdout>>

\* conversion_type '11to10': df[ndc_column].apply(convert_11_to_10)
Apply11to10 ==
    /\ pc = "input"
    /\ LET r == convert_11_to_10(ndc)
       IN  /\ converted' = r
           /\ stdout' = stdout \o r.printed
    /\ pc' = "11to10"
    /\ UNCHANGED <<ndc, back>>

\* the converted column run through '11to10' in turn
ConvertBack ==
    /\ pc = "10to11"
    /\ converted.exc = "none"
    /\ LET r == convert_11_to_10(converted.value)
       IN  /\ back' = r
           /\ stdout' = stdout \o r.printed
    /\ pc' = "roundtrip"
    /\ UNCHANGED <<ndc, converted>>

Next == Apply10to11 \/ Apply11to10 \/ ConvertBack

Spec == Init /\ [][Next]_vars

----------------------------------------------------------------------------
(* Vocabulary of the properties, stated on the stripped digits *)

digits == re_sub_nondigits(ndc)

HasSeparator == ndc # digits

AllDigits(s) == \A i \in 1..Len(s) : IsDecimalDigit(s[i])

\* rule "digits[i] == '0' and digits[i+1] != '0'" of the 11-digit detector (0-based i)
MarkerAt(d, i) == d[i + 1] = "0" /\ d[i + 2] # "0"

InsertAt(d, i, c) == SubSeq(d, 1, i) \o <<c>> \o SubSeq(d, i + 1, Len(d))
RemoveAt(d, i) == SubSeq(d, 1, i) \o SubSeq(d, i + 2, Len(d))

\* index of the padding zero in the 11-digit form of a layout
PadIndex(f) == CASE f = "4-4-2" -> 0 [] f = "5-3-2" -> 5 [] f = "5-4-1" -> 9

Layouts == {"4-4-2", "5-3-2", "5-4-1"}

\* the layout is unambiguous: the 11-digit detector recovers from the expansion
\* the layout the 10-digit detector chose
LayoutRecovered ==
    detect_11_digit_format(converted.value).format_type = detect_10_digit_format(ndc).format_type

----------------------------------------------------------------------------
(* C1 *)

\* C1 as stated: for every input with exactly 10 stripped digits whose layout
\* is unambiguous, convert_11_to_10(convert_10_to_11(d)) is d itself.
C1_RoundTripReturnsInput ==
    (pc = "roundtrip" /\ Len(digits) = 10 /\ LayoutRecovered)
        => (back.exc = "none" /\ back.value = ndc)

\* C1 amended: for every input with exactly 10 stripped digits for which the
\* 11-digit detector recovers the layout the 10-digit detector chose, the round
\* trip returns the stripped digits of the input (the input itself only when it
\* carries no separator).
C1_RoundTripReturnsDigits ==
    (pc = "roundtrip" /\ Len(digits) = 10 /\ LayoutRecovered)
        => (back.exc = "none" /\ back.value = digits)

C1_Witness ==
    /\ pc = "roundtrip" /\ Len(digits) = 10 /\ LayoutRecovered
    /\ detect_10_digit_format(ndc).format_type = "5-4-1"
    /\ HasSeparator
    /\ back.value = digits

----------------------------------------------------------------------------
(* C2 *)

NoMarker(d) == ~MarkerAt(d, 0) /\ ~MarkerAt(d, 5) /\ ~MarkerAt(d, 9)

\* C2 as stated: with 11 stripped digits and no zero-marker rule matching,
\* convert_11_to_10 emits a diagnostic and returns the input unchanged,
\* separators included.
C2_UnknownReturnsInput ==
    (pc = "11to10" /\ Len(digits) = 11 /\ NoMarker(digits))
        => (converted.exc = "none" /\ converted.value = ndc /\ Len(stdout) = 1)

\* C2 amended: with 11 stripped digits and no zero-marker rule matching,
\* convert_11_to_10 emits one diagnostic and returns the 11 stripped digits
\* with no digit removed; that is the input itself only when the input
\* carries no separator.
C2_UnknownReturnsDigits ==
    (pc = "11to10" /\ Len(digits) = 11 /\ NoMarker(digits))
        => /\ converted.exc = "none"
           /\ converted.value = digits
           /\ stdout = <<digits>>

C2_Witness ==
    /\ pc = "11to10" /\ Len(digits) = 11 /\ NoMarker(digits)
    /\ HasSeparator
    /\ converted.value = digits
    /\ Len(stdout) = 1

----------------------------------------------------------------------------
(* C3 *)

\* C3: convert_10_to_11 returns its input itself, separators and all, whenever
\* the stripped digit length is not exactly 10 (11, 0 and every other length).
C3_TenToElevenPassThrough ==
    (pc = "10to11" /\ Len(digits) # 10)
        => (converted.exc = "none" /\ converted.value = ndc)

C3_Witness ==
    /\ pc = "10to11" /\ Len(digits) = 11 /\ HasSeparator
    /\ converted.value = ndc

----------------------------------------------------------------------------
(* C4 *)

\* C4: convert_11_to_10 returns its input itself, separators and all, whenever
\* the stripped digit length is not exactly 11.
C4_ElevenToTenPassThrough ==
    (pc = "11to10" /\ Len(digits) # 11)
        => (converted.exc = "none" /\ converted.value = ndc /\ stdout = <<>>)

C4_Witness ==
    /\ pc = "11to10" /\ Len(digits) = 10 /\ HasSeparator
    /\ converted.value = ndc

----------------------------------------------------------------------------
(* C5 *)

\* C5: on every input with exactly 10 stripped digits the output of
\* convert_10_to_11 is exactly 11 characters long, all of them digits.
C5_TenToElevenLength ==
    (pc = "10to11" /\ Len(digits) = 10)
        => (converted.exc = "none" /\ Len(converted.value) = 11 /\ AllDigits(converted.value))

C5_Witness ==
    /\ pc = "10to11" /\ Len(digits) = 10 /\ HasSeparator
    /\ detect_10_digit_format(ndc).format_type = "5-4-1"
    /\ Len(converted.value) = 11

----------------------------------------------------------------------------
(* C6 *)

\* C6: on every input with exactly 11 stripped digits whose layout is
\* determinable (not unknown) the output of convert_11_to_10 is exactly 10
\* characters long, all of them digits.
C6_ElevenToTenLength ==
    (pc = "11to10" /\ Len(digits) = 11
        /\ detect_11_digit_format(ndc).format_type \in Layouts)
        => (converted.exc = "none" /\ Len(converted.value) = 10 /\ AllDigits(converted.value))

C6_Witness ==
    /\ pc = "11to10" /\ Len(digits) = 11 /\ HasSeparator
    /\ detect_11_digit_format(ndc).format_type = "5-3-2"
    /\ Len(converted.value) = 10

----------------------------------------------------------------------------
(* C7 *)

\* C7: both converters are total: every call returns (no exception), and the
\* value returned is a string of digits or the input unchanged.
C7_Total ==
    /\ pc \in {"10to11", "11to10"}
        => (converted.exc = "none" /\ (AllDigits(converted.value) \/ converted.value = ndc))
    /\ pc = "roundtrip"
        => (back.exc = "none" /\ (AllDigits(back.value) \/ back.value = converted.value))

C7_Witness ==
    /\ pc = "10to11" /\ Len(digits) < 10 /\ Len(digits) > 0 /\ HasSeparator
    /\ digits[1] \notin {"0", "1", "2", "3"}
    /\ converted.exc = "none"
    /\ converted.value = ndc

----------------------------------------------------------------------------
(* C8 *)

\* layout the 10-digit rules give: 4-4-2 on a first digit 0..3, else 5-4-1 on
\* a product code below 9999, else 5-3-2
RuleLayout10(d) ==
    IF d[1] \in {"0", "1", "2", "3"} THEN "4-4-2"
    ELSE IF int(SubSeq(d, 6, 9)) < 9999 THEN "5-4-1"
    ELSE "5-3-2"

\* C8: on every 10-digit string detect_10_digit_format answers 4-4-2 if the
\* first digit is 0..3, else 5-4-1 if the digits at positions 5-8 are below
\* 9999, else 5-3-2, and convert_10_to_11 inserts the '0' at index 0, 9 or 5
\* respectively.
C8_TenDigitClassification ==
    (pc = "10to11" /\ Len(digits) = 10)
        => /\ detect_10_digit_format(ndc).format_type = RuleLayout10(digits)
           /\ converted.value = InsertAt(digits, PadIndex(RuleLayout10(digits)), "0")

----------------------------------------------------------------------------
(* C9 *)

\* layout the 11-digit rules give, first match first
RuleLayout11(d) ==
    IF MarkerAt(d, 0) THEN "4-4-2"
    ELSE IF MarkerAt(d, 5) THEN "5-3-2"
    ELSE IF MarkerAt(d, 9) THEN "5-4-1"
    ELSE "unknown"

\* C9: on every 11-digit string detect_11_digit_format answers with the first
\* matching rule in the order 4-4-2 (index 0), 5-3-2 (index 5), 5-4-1
\* (index 9), unknown when none matches, and convert_11_to_10 drops index 0, 5
\* or 9 accordingly.
C9_ElevenDigitPriority ==
    (pc = "11to10" /\ Len(digits) = 11)
        => /\ detect_11_digit_format(ndc).format_type = RuleLayout11(digits)
           /\ RuleLayout11(digits) \in Layouts
                => converted.value = RemoveAt(digits, PadIndex(RuleLayout11(digits)))

C9_Witness ==
    /\ pc = "11to10" /\ Len(digits) = 11
    /\ MarkerAt(digits, 0) /\ MarkerAt(digits, 5) /\ MarkerAt(digits, 9)
    /\ converted.value = RemoveAt(digits, 0)

----------------------------------------------------------------------------
(* C10 *)

\* C10: whenever convert_11_to_10 removes a digit (11 stripped digits, layout
\* not unknown) the removed character is a '0' and the other digits keep their
\* order: putting '0' back at the detected layout's index gives the 11
\* stripped digits again.
C10_RemovesOnlyPaddingZero ==
    (pc = "11to10" /\ Len(digits) = 11
        /\ detect_11_digit_format(ndc).format_type \in Layouts)
        => LET i == PadIndex(detect_11_digit_format(ndc).format_type)
           IN  /\ digits[i + 1] = "0"
               /\ InsertAt(converted.value, i, "0") = digits

C10_Witness ==
    /\ pc = "11to10" /\ Len(digits) = 11
    /\ detect_11_digit_format(ndc).format_type = "5-4-1"
    /\ digits[10] = "0"
    /\ InsertAt(converted.value, 9, "0") = digits

====
